---- MODULE Spec2Model ----
(***************************************************************************)
(* QuantumMemoryCell (src/quantum_memory_cell.py): the slot store, write,  *)
(* the per-item read pipeline (validate, assemble, submit, poll, fetch,    *)
(* decode) over the three backend modes, forward, the counts-to-           *)
(* probability decoding, and the cell's construction and teardown.         *)
(***************************************************************************)
EXTENDS Integers, Sequences, FiniteSets, TLC

(* ---------------------------- bounds ----------------------------------- *)
\* longest batch handed to read
MaxBatch == 2
\* longest batch handed to write
MaxWrite == 2
\* largest time one job.status() round trip may take
MaxLatency == 1

(* ----------------------- cell configuration ---------------------------- *)
\* the constructor's arguments, lines 113-117
num_qubits == 2
memory_depth == 2
classical_hidden_size == 2
job_poll_interval == 1
job_timeout == 2
\* line 206: read's default shots
shots_default == 1024

\* Python's None for an object-valued field, and a present object
None == <<>>
Some(x) == <<x>>
Get(o) == o[1]
\* Python's None where the model keeps a string
Absent == "None"

Modes == {"gpu", "qr-cloud", "cpu-qiskit"}

\* JobStatus, line 82
DONE == "DONE"
ERROR == "ERROR"
CANCELLED == "CANCELLED"
RUNNING == "RUNNING"
QUEUED == "QUEUED"
JobStatus == {DONE, ERROR, CANCELLED, RUNNING, QUEUED}

Slots == 0 .. (memory_depth - 1)
\* slot indices a caller may pass, in range or not
SlotInputs == -1 .. memory_depth
\* the hidden vectors a caller writes: two that encode to different angles
Vectors == { [c \in 1..classical_hidden_size |-> 1], [c \in 1..classical_hidden_size |-> 2] }

SeqsUpTo(S, n) == UNION { [1..k -> S] : k \in 0..n }

(* ------------------------- angle encoder ------------------------------- *)
\* weights and bias of encoding_linear: fixed integers standing for the
\* learned parameters; row r in 1..2*num_qubits, column c in 1..hidden
Weight(r, c) == r + c
Bias(r) == r - 1

RECURSIVE Dot(_, _, _)
Dot(r, v, c) == IF c = 0 THEN 0 ELSE Weight(r, c) * v[c] + Dot(r, v, c - 1)

encoding_linear(v) == [r \in 1..(2 * num_qubits) |-> Dot(r, v, Len(v)) + Bias(r)]

\* angles.view(num_qubits, 2) * pi : angle [q][j] in units of pi
get_angles_single(v) ==
    [q \in 0..(num_qubits - 1) |->
        <<encoding_linear(v)[2 * q + 1], encoding_linear(v)[2 * q + 2]>>]

\* the ry / rz pair appended for qubit q
RotationPair(angles, q) == << <<"ry", angles[q][1], q>>, <<"rz", angles[q][2], q>> >>

RECURSIVE Rotations(_, _)
Rotations(angles, q) ==
    IF q >= num_qubits THEN <<>>
    ELSE RotationPair(angles, q) \o Rotations(angles, q + 1)

(* -------------------- counts and probabilities ------------------------- *)
\* a bitstring is a sequence of "0" / "1" characters, leftmost first
Bitstrings(n) == [1..n -> {"0", "1"}]

\* counts of the current item: none yet, a mapping bitstring -> count, or an
\* object the counts loop cannot iterate
CountsNone == [tag |-> "none"]
CountsTable(t) == [tag |-> "table", table |-> t]
CountsMalformed == [tag |-> "malformed"]

\* line 93: what DummyJob.result() reports
DummyCounts(sh) == [b \in {[q \in 1..num_qubits |-> "0"]} |-> sh]

RECURSIVE SumCounts(_, _)
SumCounts(t, keys) ==
    IF keys = {} THEN 0
    ELSE LET b == CHOOSE x \in keys : TRUE
         IN  t[b] + SumCounts(t, keys \ {b})

\* the bit of qubit q looked up from the left end of the bitstring
BitIsOneFromLeft(b, q) == Len(b) = num_qubits /\ b[q + 1] = "1"

\* line 302: bitstring[num_qubits - 1 - qubit_idx] == '1', 0-based in Python
BitIsOne(b, q) == Len(b) = num_qubits /\ b[num_qubits - q] = "1"

\* a loop that counts the matching bitstrings instead of their counts
prob1Occurrences(t, q) == Cardinality({ b \in DOMAIN t : BitIsOne(b, q) })

\* lines 300-303
prob1(t, q) == SumCounts(t, { b \in DOMAIN t : BitIsOne(b, q) })

\* a quotient is kept as <<numerator, denominator>>; 0.0 is <<0, 1>>
Zero == <<0, 1>>

\* the division without its shots > 0 test
RatioUnguarded(p, sh) == <<p, sh>>

\* line 304: prob1 / shots if shots > 0 else 0.0
Ratio(p, sh) == IF sh > 0 THEN <<p, sh>> ELSE Zero

\* lines 297-304: probs stays torch.zeros when counts is empty
Probabilities(t, sh) ==
    IF DOMAIN t = {} THEN [q \in 0..(num_qubits - 1) |-> Zero]
    ELSE [q \in 0..(num_qubits - 1) |-> Ratio(prob1(t, q), sh)]

(* ----------------------------- state ----------------------------------- *)
VARIABLES
    backend_mode,            \* self.backend_mode
    backend,                 \* self.backend: None or the handle kind
    gpu_simulators,          \* self.gpu_simulators: None or slot -> applied ops
    quantum_memory_states,   \* self.quantum_memory_states: slot -> None or ops
    pc,                      \* position of the caller / of read
    batch,                   \* read: memory_slot_indices_batch as a sequence
    i,                       \* read: loop index (0-based)
    batch_outputs,           \* read: rows appended so far
    job,                     \* read: job of the current item, or None
    elapsed,                 \* read: time.time() - start_time
    counts,                  \* read: counts of the current item
    outcome,                 \* how the last call ended
    cause,                   \* history: per resolved item, where it failed
    err,                     \* the exception read met last, or None
    calls,                   \* history: backend operations called for the current item
    called,                  \* history: items of this read with a backend call
    runs,                    \* history: item of each backend.run call of this read, in order
    lastw,                   \* history: slot -> last vector applied by write
    wcall,                   \* history: the write call that just ended
    shots,                   \* read: the shots argument
    ctor,                    \* the constructor call in progress or just ended
    release_calls            \* __del__: outcome of each sim.release() called, in order

vars == <<backend_mode, backend, gpu_simulators, quantum_memory_states, pc,
          batch, i, batch_outputs, job, elapsed, counts, outcome, cause,
          err, calls, called, runs, lastw, wcall, shots, ctor, release_calls>>

cellVars == <<backend_mode, backend, ctor, release_calls>>
storeVars == <<gpu_simulators, quantum_memory_states, lastw>>
readVars == <<batch, i, batch_outputs, job, elapsed, counts, cause, err, calls, called, runs, shots>>

\* the range test with its lower bound forgotten
InRangeNoLower(s) == s < memory_depth

\* lines 183, 225
InRange(s) == 0 <= s /\ s < memory_depth

\* Python list indexing: a negative index counts from the end
PyIndex(k) == IF k < 0 THEN k + memory_depth ELSE k

(* -------------------------- construction ------------------------------- *)
\* __init__: the handle each mode ends up with.  qr-cloud keeps whatever
\* provider.get_backend returned (possibly None) or the dummy BackendV2.
\* "remote" is a handle whose jobs may behave in any way; the stand-in of
\* lines 68-98, modelled exactly, is the handle "dummy" of DummyInit.
BackendsOf(mode) ==
    IF mode = "gpu" THEN {Absent}
    ELSE IF mode = "qr-cloud" THEN {Absent, "remote"}
    ELSE {"aer"}

Init ==
    /\ backend_mode \in Modes
    /\ backend \in BackendsOf(backend_mode)
    /\ gpu_simulators = IF backend_mode = "gpu" THEN Some([k \in Slots |-> <<>>]) ELSE None
    /\ quantum_memory_states = [k \in Slots |-> None]
    /\ pc = "idle"
    /\ batch = <<>>
    /\ i = 0
    /\ batch_outputs = <<>>
    /\ job = None
    /\ elapsed = 0
    /\ counts = CountsNone
    /\ outcome = Absent
    /\ cause = <<>>
    /\ err = None
    /\ calls = {}
    /\ called = {}
    /\ runs = <<>>
    /\ lastw = [k \in Slots |-> None]
    /\ wcall = None
    /\ shots = 0
    /\ ctor = None
    /\ release_calls = <<>>

(* ------------------------------ write ---------------------------------- *)
\* what a caller passes as memory_slot_indices_batch: an int or a list/tensor
IntArg(k) == [int |-> k]
ListArg(s) == [list |-> s]
IsInt(arg) == DOMAIN arg = {"int"}
IndexArgs(n) == { IntArg(k) : k \in SlotInputs } \cup { ListArg(s) : s \in SeqsUpTo(SlotInputs, n) }

\* lines 172-175: a scalar index is repeated batch_size times
WriteIndices(idx, batch_size) ==
    IF IsInt(idx) THEN [j \in 1..batch_size |-> idx.int] ELSE idx.list

\* a write that appends the new rotations to the blueprint already stored
WriteItemAccumulate(st, v, slot) ==
    IF backend_mode = "gpu"
    THEN [sims |-> Some([Get(st.sims) EXCEPT ![PyIndex(slot)] = @ \o Rotations(get_angles_single(v), 0)]),
          qms |-> [st.qms EXCEPT ![PyIndex(slot)] = None]]
    ELSE [sims |-> st.sims,
          qms |-> [st.qms EXCEPT ![PyIndex(slot)] =
                      Some((IF @ = None THEN <<>> ELSE Get(@)) \o Rotations(get_angles_single(v), 0))]]

\* lines 186-204: one item of the loop.  gpu: reset, then ry/rz per qubit on
\* the slot's simulator; otherwise a fresh circuit replaces the slot's content
WriteItem(st, v, slot) ==
    IF backend_mode = "gpu"
    THEN [sims |-> Some([Get(st.sims) EXCEPT ![PyIndex(slot)] = Rotations(get_angles_single(v), 0)]),
          qms |-> [st.qms EXCEPT ![PyIndex(slot)] = None]]
    ELSE [sims |-> st.sims,
          qms |-> [st.qms EXCEPT ![PyIndex(slot)] = Some(Rotations(get_angles_single(v), 0))]]

\* a loop that validates every index of the batch before it writes any item
RECURSIVE WriteLoopAtomic(_, _, _, _)
WriteLoopAtomic(st, vecs, idx, n) ==
    LET bad == { j \in n..(Len(vecs) - 1) : ~InRange(idx[j + 1]) }
    IN  IF bad # {}
        THEN [st |-> st, res |-> "out_of_bounds", at |-> CHOOSE j \in bad : \A h \in bad : j <= h]
        ELSE IF n >= Len(vecs) THEN [st |-> st, res |-> "ok", at |-> n]
        ELSE WriteLoopAtomic(WriteItem(st, vecs[n + 1], idx[n + 1]), vecs, idx, n + 1)

\* lines 181-204: the loop, stopping at the first out-of-bounds item
RECURSIVE WriteLoop(_, _, _, _)
WriteLoop(st, vecs, idx, n) ==
    IF n >= Len(vecs) THEN [st |-> st, res |-> "ok", at |-> n]
    ELSE IF ~InRange(idx[n + 1]) THEN [st |-> st, res |-> "out_of_bounds", at |-> n]
    ELSE WriteLoop(WriteItem(st, vecs[n + 1], idx[n + 1]), vecs, idx, n + 1)

\* a write that checks the lengths only after the loop over the common prefix
WriteResultCheckLast(vecs, idx) ==
    LET ix == WriteIndices(idx, Len(vecs))
        st0 == [sims |-> gpu_simulators, qms |-> quantum_memory_states]
        m == IF Len(ix) < Len(vecs) THEN Len(ix) ELSE Len(vecs)
        r == WriteLoop(st0, SubSeq(vecs, 1, m), SubSeq(ix, 1, m), 0)
    IN  IF Len(ix) # Len(vecs) /\ r.res = "ok"
        THEN [st |-> r.st, res |-> "length_mismatch", at |-> r.at]
        ELSE r

\* lines 169-204
WriteResult(vecs, idx) ==
    LET ix == WriteIndices(idx, Len(vecs))
        st0 == [sims |-> gpu_simulators, qms |-> quantum_memory_states]
    IN  IF Len(ix) # Len(vecs) THEN [st |-> st0, res |-> "length_mismatch", at |-> 0]
        ELSE WriteLoop(st0, vecs, ix, 0)

\* history: the vector of the last of the first n items that targets slot k
LastTargeting(vecs, ix, n, k, old) ==
    LET hits == { j \in 1..n : ix[j] = k }
    IN  IF hits = {} THEN old
        ELSE Some(vecs[CHOOSE j \in hits : \A h \in hits : h <= j])

Write(vecs, idx) ==
    /\ pc = "idle"
    /\ LET r == WriteResult(vecs, idx)
           ix == WriteIndices(idx, Len(vecs))
       IN  /\ gpu_simulators' = r.st.sims
           /\ quantum_memory_states' = r.st.qms
           /\ lastw' = [k \in Slots |-> LastTargeting(vecs, ix, r.at, k, lastw[k])]
           /\ wcall' = Some([vecs |-> vecs, arg |-> idx, idx |-> ix, res |-> r.res, at |-> r.at])
           /\ outcome' = IF r.res = "ok" THEN "returned" ELSE "raised"
    /\ pc' = "wrote"
    /\ UNCHANGED <<cellVars, readVars>>

\* the caller gets control back
Return ==
    /\ pc \in {"wrote", "done"}
    /\ pc' = "idle"
    /\ batch' = <<>>
    /\ i' = 0
    /\ batch_outputs' = <<>>
    /\ job' = None
    /\ elapsed' = 0
    /\ counts' = CountsNone
    /\ outcome' = Absent
    /\ cause' = <<>>
    /\ err' = None
    /\ calls' = {}
    /\ called' = {}
    /\ runs' = <<>>
    /\ wcall' = None
    /\ shots' = 0
    /\ UNCHANGED <<cellVars, storeVars>>

(* ------------------------------- read ---------------------------------- *)
\* lines 207-210: an int becomes a batch of one
ReadIndices(arg) == IF IsInt(arg) THEN <<arg.int>> ELSE arg.list

\* torch.randn(1, hidden): a fallback row, tagged with the item it stands for
FallbackRow(pos, slot) ==
    [kind |-> "fallback", pos |-> pos, slot |-> slot, circ |-> None, table |-> None, probs |-> None]

\* decoding_linear(probs): a decoded row, tagged with item, measured program,
\* counts table and the probabilities it was decoded from
DecodedRow(pos, slot, circ, table, probs) ==
    [kind |-> "decoded", pos |-> pos, slot |-> slot, circ |-> Some(circ),
     table |-> Some(table), probs |-> Some(probs)]

\* the availability test with its non-gpu half forgotten
BackendMissingGpuOnly == backend_mode = "gpu" /\ gpu_simulators = None

\* lines 215-220: the handle the configured mode needs is missing
BackendMissing ==
    \/ backend_mode # "gpu" /\ backend = Absent
    \/ backend_mode = "gpu" /\ gpu_simulators = None

\* lines 217 / 220: torch.randn(batch_size, hidden)
AllFallback(b) == [j \in 1..Len(b) |-> FallbackRow(j - 1, b[j])]

\* lines 234-260: blueprint (or empty circuit) followed by measure-all
MeasurementCircuit(blueprint) ==
    (IF blueprint = None THEN <<>> ELSE Get(blueprint)) \o << <<"measure">> >>

\* line 282
Terminal(st) == st \in {DONE, ERROR, CANCELLED}

\* line 283
TimedOut(t) == t > job_timeout

\* line 286
JobSucceededAlways(st) == TRUE

JobSucceeded(st) == st = DONE

\* a sleep that lets no time pass
SleepStuck(t) == t

\* line 285: time.sleep(job_poll_interval)
Sleep(t) == t + job_poll_interval

\* lines 235-238: the empty circuit is a local, the slot keeps its content
AssembleStoreCaching(slot) ==
    [quantum_memory_states EXCEPT ![PyIndex(slot)] = IF @ = None THEN Some(<<>>) ELSE @]

AssembleStore(slot) == quantum_memory_states

\* lines 310-311: torch.empty(0, hidden) when no row was produced, else cat
ReadResultNonEmpty(rows) == IF rows = <<>> THEN <<FallbackRow(0, 0)>> ELSE rows

ReadResult(rows) == rows

\* the exceptions read can meet, as <<type, detail>>
ValidationError(slot) == <<"ValueError", slot>>
TimeoutError(st) == <<"TimeoutError", st>>
JobFailed(st) == <<"RuntimeError", st>>
BackendError(op) == <<"BackendError", op>>
StageError(stage) == <<"Exception", stage>>

\* lines 206-220
ReadCall(arg, sh) ==
    /\ pc = "idle"
    /\ batch' = ReadIndices(arg)
    /\ shots' = sh
    /\ i' = 0
    /\ IF BackendMissing
       THEN /\ batch_outputs' = AllFallback(ReadIndices(arg))
            /\ outcome' = "returned"
            /\ pc' = "done"
       ELSE /\ batch_outputs' = <<>>
            /\ outcome' = Absent
            /\ pc' = "loop"
    /\ UNCHANGED <<cellVars, storeVars, job, elapsed, counts, cause, err, calls, called, runs, wcall>>

\* lines 223, 310-311: the loop is over, the rows are concatenated
ReadReturn ==
    /\ pc = "loop"
    /\ i >= Len(batch)
    /\ outcome' = "returned"
    /\ pc' = "done"
    /\ batch_outputs' = ReadResult(batch_outputs)
    /\ err' = None
    /\ elapsed' = 0
    /\ UNCHANGED <<cellVars, storeVars, batch, i, job, counts, cause, calls, called, runs, wcall, shots>>

\* an exception that leaves read: no handler encloses the raising line
Propagate(e) ==
    /\ outcome' = "raised"
    /\ err' = e
    /\ pc' = "done"
    /\ job' = None
    /\ counts' = CountsNone
    /\ elapsed' = 0
    /\ UNCHANGED <<batch, i, batch_outputs, cause>>

\* lines 224-226
ReadValidationError ==
    /\ pc = "loop"
    /\ i < Len(batch)
    /\ ~InRange(batch[i + 1])
    /\ Propagate(ValidationError(batch[i + 1]))
    /\ UNCHANGED <<cellVars, storeVars, calls, called, runs, wcall, shots>>

\* an except clause that lets the exception go
FallbackAbort(class, e, t) == Propagate(e)

\* an except clause that continues without appending a row
FallbackDrop(class, e, t) ==
    /\ cause' = Append(cause, class)
    /\ err' = e
    /\ elapsed' = t
    /\ i' = i + 1
    /\ pc' = "loop"
    /\ job' = None
    /\ counts' = CountsNone
    /\ UNCHANGED <<batch, outcome, batch_outputs>>

\* an except clause that submits the item again
FallbackRetry(class, e, t) ==
    /\ err' = e
    /\ elapsed' = 0
    /\ pc' = "submit"
    /\ job' = Some([Get(job) EXCEPT !.status = Absent, !.polls = 0, !.sleeps = 0])
    /\ counts' = CountsNone
    /\ UNCHANGED <<batch, outcome, batch_outputs, cause, i>>

\* lines 291-294: fallback row for this item, then continue
Fallback(class, e, t) ==
    /\ batch_outputs' = Append(batch_outputs, FallbackRow(i, batch[i + 1]))
    /\ cause' = Append(cause, class)
    /\ err' = e
    /\ elapsed' = t
    /\ i' = i + 1
    /\ pc' = "loop"
    /\ job' = None
    /\ counts' = CountsNone
    /\ UNCHANGED <<batch, outcome>>

\* lines 229-232: gpu branch, outside any try
GpuMeasure(tables) ==
    /\ pc = "loop"
    /\ i < Len(batch)
    /\ InRange(batch[i + 1])
    /\ backend_mode = "gpu"
    /\ calls' = {"measure_shots"}
    /\ called' = called \cup {i}
    /\ runs' = runs
    /\ \E r \in {[tag |-> "raise"], CountsMalformed} \cup { CountsTable(t) : t \in tables } :
         IF r.tag = "raise"
         THEN Propagate(BackendError("measure_shots"))
         ELSE /\ counts' = r
              /\ job' = Some([pos |-> i, circ |-> MeasurementCircuit(Some(Get(gpu_simulators)[PyIndex(batch[i + 1])])), status |-> Absent, polls |-> 0, sleeps |-> 0])
              /\ pc' = "decode"
              /\ err' = None
              /\ elapsed' = 0
              /\ UNCHANGED <<batch, i, batch_outputs, cause, outcome>>
    /\ UNCHANGED <<cellVars, storeVars, wcall, shots>>

\* an assembly that rejects a slot that was never written
AssemblyOutcomesStrict(blueprint) ==
    IF blueprint = None THEN {FALSE} ELSE BOOLEAN

\* lines 235-258: whether the assembly can succeed (TRUE) or raise (FALSE).
\* A missing blueprint is replaced by an empty circuit (235-238), whose
\* to_gate failure is caught (249-252) and whose rebuild loop (254-258) runs
\* over no operation; the rebuild of a stored blueprint can raise.
AssemblyOutcomes(blueprint) ==
    IF blueprint = None THEN {TRUE} ELSE BOOLEAN

\* lines 234-260: measurement-circuit assembly, outside the try of line 262
Assemble ==
    /\ pc = "loop"
    /\ i < Len(batch)
    /\ InRange(batch[i + 1])
    /\ backend_mode # "gpu"
    /\ \E ok \in AssemblyOutcomes(quantum_memory_states[PyIndex(batch[i + 1])]) :
         IF ok
         THEN /\ job' = Some([pos |-> i, circ |-> MeasurementCircuit(quantum_memory_states[PyIndex(batch[i + 1])]), status |-> Absent, polls |-> 0, sleeps |-> 0])
              /\ pc' = "submit"
              /\ err' = None
              /\ elapsed' = 0
              /\ UNCHANGED <<batch, i, batch_outputs, cause, outcome, counts>>
         ELSE Propagate(StageError("assembly"))
    /\ quantum_memory_states' = AssembleStore(batch[i + 1])
    /\ calls' = {}
    /\ UNCHANGED <<cellVars, gpu_simulators, lastw, called, runs, wcall, shots>>

\* a stand-in job that is done at its first status() call
DummyStatusSkip(st) == IF st \in {QUEUED, RUNNING} THEN DONE ELSE st

\* lines 85-88: DummyJob.status() moves QUEUED to RUNNING and RUNNING to DONE,
\* leaves any other status, and returns the new status
DummyStatus(st) ==
    IF st = QUEUED THEN RUNNING ELSE IF st = RUNNING THEN DONE ELSE st

\* lines 74-76, 276: how backend.run can end: the stand-in backend returns a
\* DummyJob; any other backend returns a job ("ok") or raises ("run"), and
\* in cpu-qiskit mode transpile may raise before it
RunOutcomes(b, mode) ==
    IF b = "dummy" THEN {"ok"}
    ELSE {"ok", "run"} \cup (IF mode = "cpu-qiskit" THEN {"transpile"} ELSE {})

\* lines 85-88, 281: what job.status() can report for a job whose status is st
StatusOutcomes(b, st) ==
    IF b = "dummy" THEN {DummyStatus(st)} ELSE JobStatus \cup {"raise"}

\* lines 89-98, 289-290: what job.result().get_counts() can yield.  The
\* stand-in raises unless its status is DONE and then reports every shot on
\* the all-zero bitstring; any other backend raises, or reports a table or
\* something that is not one
ResultOutcomes(b, st, sh, tables) ==
    IF b = "dummy"
    THEN IF st = DONE THEN {CountsTable(DummyCounts(sh))} ELSE {[tag |-> "raise"]}
    ELSE {[tag |-> "raise"], CountsMalformed} \cup { CountsTable(t) : t \in tables }

\* line 283: the time a job.status() round trip may take
Latencies == 0..MaxLatency

\* the history counters of a job (status() calls, sleeps) stop counting at
\* PollCap, which the loop of lines 280-285 cannot reach: every sleep adds
\* job_poll_interval >= 1 to the elapsed time, so that the timeout test fails
\* at the latest at poll job_timeout + 2
PollCap == job_timeout + 3
Count(n) == IF n < PollCap THEN n + 1 ELSE n

\* a polling loop entered in every Qiskit-based mode
NeedsPollingAlways(mode) == TRUE

\* line 278: only QR cloud needs polling
NeedsPolling(mode) == mode = "qr-cloud"

\* lines 262-279: transpile (cpu-qiskit), backend.run, start_time
Submit ==
    /\ pc = "submit"
    /\ \E r \in RunOutcomes(backend, backend_mode) :
         /\ calls' = IF r = "transpile" THEN calls ELSE calls \cup {"run"}
         /\ called' = IF r = "transpile" THEN called ELSE called \cup {i}
         /\ runs' = IF r = "transpile" THEN runs ELSE Append(runs, i)
         /\ IF r = "ok"
            THEN /\ job' = Some([Get(job) EXCEPT !.status = QUEUED])
                 /\ pc' = IF NeedsPolling(backend_mode) THEN "poll" ELSE "fetch"
                 /\ UNCHANGED <<batch, i, batch_outputs, cause, err, elapsed, outcome, counts>>
            ELSE Fallback("backend", BackendError(r), 0)
    /\ UNCHANGED <<cellVars, storeVars, wcall, shots>>

\* a poll that, finding the job still pending, leaves it in flight and moves
\* on to the next item instead of sleeping
PollDeferred(lats) ==
    /\ pc = "poll"
    /\ calls' = calls \cup {"status"}
    /\ called' = called \cup {i}
    /\ runs' = runs
    /\ \E lat \in lats, st \in StatusOutcomes(backend, Get(job).status) :
         LET now == elapsed + lat
         IN  IF st = "raise" THEN Fallback("poll", BackendError("status"), 0)
             ELSE IF Terminal(st)
             THEN IF ~JobSucceeded(st)
                  THEN Fallback("poll", JobFailed(st), 0)
                  ELSE /\ job' = Some([Get(job) EXCEPT !.status = st])
                       /\ pc' = "fetch"
                       /\ elapsed' = now
                       /\ UNCHANGED <<batch, i, batch_outputs, cause, err, outcome, counts>>
             ELSE /\ job' = None
                  /\ i' = i + 1
                  /\ pc' = "loop"
                  /\ elapsed' = 0
                  /\ UNCHANGED <<batch, batch_outputs, cause, err, outcome, counts>>
    /\ UNCHANGED <<cellVars, storeVars, wcall, shots>>

\* a polling loop that tests the timeout before it looks at the status
PollTimeoutFirst(lats) ==
    /\ pc = "poll"
    /\ calls' = calls \cup {"status"}
    /\ called' = called \cup {i}
    /\ runs' = runs
    /\ \E lat \in lats, st \in StatusOutcomes(backend, Get(job).status) :
         LET now == elapsed + lat
         IN  IF st = "raise" THEN Fallback("poll", BackendError("status"), 0)
             ELSE IF TimedOut(now)
             THEN Fallback("poll", TimeoutError(st), now)
             ELSE IF Terminal(st)
             THEN IF ~JobSucceeded(st)
                  THEN Fallback("poll", JobFailed(st), 0)
                  ELSE /\ job' = Some([Get(job) EXCEPT !.status = st, !.polls = Count(@)])
                       /\ pc' = "fetch"
                       /\ elapsed' = now
                       /\ UNCHANGED <<batch, i, batch_outputs, cause, err, outcome, counts>>
             ELSE /\ job' = Some([Get(job) EXCEPT !.status = st, !.polls = Count(@), !.sleeps = Count(@)])
                  /\ elapsed' = Sleep(now)
                  /\ UNCHANGED <<batch, i, batch_outputs, cause, err, outcome, counts, pc>>
    /\ UNCHANGED <<cellVars, storeVars, wcall, shots>>

\* lines 280-287: one iteration of the polling loop, and the test after it
Poll(lats) ==
    /\ pc = "poll"
    /\ calls' = calls \cup {"status"}
    /\ called' = called \cup {i}
    /\ runs' = runs
    /\ \E lat \in lats, st \in StatusOutcomes(backend, Get(job).status) :
         LET now == elapsed + lat
         IN  IF st = "raise" THEN Fallback("poll", BackendError("status"), 0)
             ELSE IF Terminal(st)
             THEN IF ~JobSucceeded(st)
                  THEN Fallback("poll", JobFailed(st), 0)
                  ELSE /\ job' = Some([Get(job) EXCEPT !.status = st, !.polls = Count(@)])
                       /\ pc' = "fetch"
                       /\ elapsed' = now
                       /\ UNCHANGED <<batch, i, batch_outputs, cause, err, outcome, counts>>
             ELSE IF TimedOut(now)
             THEN Fallback("poll", TimeoutError(st), now)
             ELSE /\ job' = Some([Get(job) EXCEPT !.status = st, !.polls = Count(@), !.sleeps = Count(@)])
                  /\ elapsed' = Sleep(now)
                  /\ UNCHANGED <<batch, i, batch_outputs, cause, err, outcome, counts, pc>>
    /\ UNCHANGED <<cellVars, storeVars, wcall, shots>>

\* lines 289-290: job.result(), result.get_counts()
Fetch(tables) ==
    /\ pc = "fetch"
    /\ calls' = calls \cup {"result"}
    /\ called' = called \cup {i}
    /\ runs' = runs
    /\ \E r \in ResultOutcomes(backend, Get(job).status, shots, tables) :
         IF r.tag = "raise"
         THEN Fallback("backend", BackendError("result"), 0)
         ELSE /\ counts' = r
              /\ pc' = "decode"
              /\ elapsed' = 0
              /\ UNCHANGED <<batch, i, batch_outputs, cause, err, outcome, job>>
    /\ UNCHANGED <<cellVars, storeVars, wcall, shots>>

\* lines 296-308: counts to probabilities to a decoded row, outside any try
Decode ==
    /\ pc = "decode"
    /\ IF counts.tag = "malformed"
       THEN Propagate(StageError("decode"))
       ELSE /\ batch_outputs' = Append(batch_outputs,
                   DecodedRow(i, batch[i + 1], Get(job).circ, counts.table,
                              Probabilities(counts.table, shots)))
            /\ cause' = Append(cause, "none")
            /\ i' = i + 1
            /\ pc' = "loop"
            /\ job' = None
            /\ counts' = CountsNone
            /\ UNCHANGED <<batch, outcome, err, elapsed>>
    /\ UNCHANGED <<cellVars, storeVars, calls, called, runs, wcall, shots>>

\* the counts a well-behaved backend reports for the job it was given
BackendTables == {DummyCounts(shots)}

ReadStep ==
    \/ ReadReturn \/ ReadValidationError \/ GpuMeasure(BackendTables) \/ Assemble
    \/ Submit \/ Poll(Latencies) \/ Fetch(BackendTables) \/ Decode

Next ==
    \/ \E vecs \in SeqsUpTo(Vectors, MaxWrite), idx \in IndexArgs(MaxWrite) : Write(vecs, idx)
    \/ \E arg \in IndexArgs(MaxBatch) : ReadCall(arg, shots_default)
    \/ ReadReturn
    \/ ReadValidationError
    \/ GpuMeasure(BackendTables)
    \/ Assemble
    \/ Submit
    \/ Poll(Latencies)
    \/ Fetch(BackendTables)
    \/ Decode
    \/ Return

Spec == Init /\ [][Next]_vars

\* read is a sequential program: once called, it keeps taking steps
LiveSpec == Init /\ [][Next]_vars /\ WF_vars(ReadStep)

(* ------------------- reads over many counts tables --------------------- *)
\* most entries of a counts table, largest count of an entry, largest shots
MaxKeys == 2
MaxCount == 2
MaxShots == 2

\* the bitstrings a backend may report: every one of length num_qubits, and
\* one that is longer
CountKeys == Bitstrings(num_qubits) \cup {[j \in 1..(num_qubits + 1) |-> "1"]}

Tables ==
    UNION { [K -> 1..MaxCount] : K \in { S \in SUBSET CountKeys : Cardinality(S) <= MaxKeys } }

\* {"00": 50, "01": 30, "10": 20}
ExampleCounts == (<<"0", "0">> :> 50) @@ (<<"0", "1">> :> 30) @@ (<<"1", "0">> :> 20)

\* the tables a backend may report, whatever the shots asked for
AnyTables == Tables \cup {ExampleCounts}

\* the shots a caller may ask for
ShotsInputs == (0..MaxShots) \cup {100}

\* single-item reads, with any shots, against a backend that may report any table
DecodeNext ==
    \/ \E k \in SlotInputs, sh \in ShotsInputs : ReadCall(IntArg(k), sh)
    \/ ReadReturn
    \/ ReadValidationError
    \/ GpuMeasure(AnyTables)
    \/ Assemble
    \/ Submit
    \/ Poll(Latencies)
    \/ Fetch(AnyTables)
    \/ Decode
    \/ Return

DecodeSpec == Init /\ [][DecodeNext]_vars

(* ------------------------------ forward -------------------------------- *)
\* the exception write leaves forward with
WriteError(r, ix) ==
    IF r.res = "length_mismatch" THEN <<"ValueError", "length">>
    ELSE ValidationError(ix[r.at + 1])

\* a forward whose read phase runs on the store as it was before the write
ForwardStoreStale(r) == [sims |-> gpu_simulators, qms |-> quantum_memory_states]

\* lines 314-315: read starts from the store write has left
ForwardStore(r) == r.st

\* lines 313-316: write, then read of the same slot indices
Forward(vecs, idx, sh) ==
    /\ pc = "idle"
    /\ LET r == WriteResult(vecs, idx)
           ix == WriteIndices(idx, Len(vecs))
       IN  /\ gpu_simulators' = ForwardStore(r).sims
           /\ quantum_memory_states' = ForwardStore(r).qms
           /\ lastw' = [k \in Slots |-> LastTargeting(vecs, ix, r.at, k, lastw[k])]
           /\ wcall' = Some([vecs |-> vecs, arg |-> idx, idx |-> ix, res |-> r.res, at |-> r.at])
           /\ IF r.res # "ok"
              THEN /\ outcome' = "raised"
                   /\ err' = WriteError(r, ix)
                   /\ pc' = "done"
                   /\ UNCHANGED <<batch, batch_outputs, shots>>
              ELSE /\ batch' = ReadIndices(idx)
                   /\ shots' = sh
                   /\ err' = None
                   /\ IF BackendMissing
                      THEN /\ batch_outputs' = AllFallback(ReadIndices(idx))
                           /\ outcome' = "returned"
                           /\ pc' = "done"
                      ELSE /\ batch_outputs' = <<>>
                           /\ outcome' = Absent
                           /\ pc' = "loop"
    /\ UNCHANGED <<cellVars, i, job, elapsed, counts, cause, calls, called, runs>>

\* the cell as HybridCTM drives it: through forward only
ForwardNext ==
    \/ \E vecs \in SeqsUpTo(Vectors, MaxWrite), idx \in IndexArgs(MaxWrite) :
         Forward(vecs, idx, shots_default)
    \/ ReadReturn
    \/ ReadValidationError
    \/ GpuMeasure(BackendTables)
    \/ Assemble
    \/ Submit
    \/ Poll(Latencies)
    \/ Fetch(BackendTables)
    \/ Decode
    \/ Return

ForwardSpec == Init /\ [][ForwardNext]_vars

(* ------------------------ the stand-in backend ------------------------- *)
\* most status() calls a client makes on one stand-in job
MaxStatusCalls == 3

\* line 283: time.time() - start_time is whatever the clock says; it may
\* exceed job_timeout at the very first test
DummyLatencies == 0..(job_timeout + 1)

\* line 90
JobNotDone == <<"RuntimeError", "Job not done.">>

\* lines 142 / 145: a qr-cloud cell whose handle is the stand-in BackendV2
DummyInit ==
    /\ backend_mode = "qr-cloud"
    /\ backend = "dummy"
    /\ gpu_simulators = None
    /\ quantum_memory_states = [k \in Slots |-> None]
    /\ pc = "idle"
    /\ batch = <<>>
    /\ i = 0
    /\ batch_outputs = <<>>
    /\ job = None
    /\ elapsed = 0
    /\ counts = CountsNone
    /\ outcome = Absent
    /\ cause = <<>>
    /\ err = None
    /\ calls = {}
    /\ called = {}
    /\ runs = <<>>
    /\ lastw = [k \in Slots |-> None]
    /\ wcall = None
    /\ shots = 0
    /\ ctor = None
    /\ release_calls = <<>>

\* lines 74-76, 84: backend.run called by a client other than read
DummyRun(sh) ==
    /\ pc = "idle"
    /\ backend = "dummy"
    /\ job' = Some([pos |-> 0, circ |-> MeasurementCircuit(None), status |-> QUEUED,
                    polls |-> 0, sleeps |-> 0])
    /\ shots' = sh
    /\ calls' = {"run"}
    /\ pc' = "job"
    /\ UNCHANGED <<cellVars, storeVars, batch, i, batch_outputs, elapsed, counts, outcome,
                   cause, err, called, runs, wcall>>

\* lines 85-88: job.status() called by that client
DummyStatusCall ==
    /\ pc = "job"
    /\ Get(job).polls < MaxStatusCalls
    /\ \E st \in StatusOutcomes(backend, Get(job).status) :
         job' = Some([Get(job) EXCEPT !.status = st, !.polls = Count(@)])
    /\ calls' = calls \cup {"status"}
    /\ UNCHANGED <<cellVars, storeVars, pc, batch, i, batch_outputs, elapsed, counts, outcome,
                   cause, err, called, runs, wcall, shots>>

\* lines 89-98: job.result().get_counts() called by that client
DummyResultCall ==
    /\ pc = "job"
    /\ \E r \in ResultOutcomes(backend, Get(job).status, shots, {}) :
         IF r.tag = "raise"
         THEN /\ err' = JobNotDone
              /\ counts' = counts
         ELSE /\ counts' = r
              /\ err' = err
    /\ calls' = calls \cup {"result"}
    /\ UNCHANGED <<cellVars, storeVars, pc, batch, i, batch_outputs, job, elapsed, outcome,
                   cause, called, runs, wcall, shots>>

\* the client drops the job
DummyDiscard ==
    /\ pc = "job"
    /\ pc' = "idle"
    /\ job' = None
    /\ counts' = CountsNone
    /\ err' = None
    /\ calls' = {}
    /\ shots' = 0
    /\ UNCHANGED <<cellVars, storeVars, batch, i, batch_outputs, elapsed, outcome, cause,
                   called, runs, wcall>>

\* a qr-cloud cell on the stand-in backend, and clients of its jobs
DummyNext ==
    \/ \E vecs \in SeqsUpTo(Vectors, MaxWrite), idx \in IndexArgs(MaxWrite) : Write(vecs, idx)
    \/ \E arg \in IndexArgs(MaxBatch) : ReadCall(arg, shots_default)
    \/ ReadReturn
    \/ ReadValidationError
    \/ Assemble
    \/ Submit
    \/ Poll(DummyLatencies)
    \/ Fetch(BackendTables)
    \/ Decode
    \/ Return
    \/ DummyRun(shots_default)
    \/ DummyStatusCall
    \/ DummyResultCall
    \/ DummyDiscard

DummySpec == DummyInit /\ [][DummyNext]_vars

(* --------------------- construction and teardown ----------------------- *)
\* an attribute __init__ has not assigned yet
Unset == "unset"

\* what a caller may pass as backend_mode: the three modes and one other
ModeInputs == Modes \cup {"tpu"}

\* a constructor call: the mode, the import flags of lines 10-13, 59-62 and
\* 100, and whether qr_token / qr_user_name are truthy
CtorCalls ==
    [mode : ModeInputs, HAS_QISKIT : BOOLEAN, HAS_CUQUANTUM : BOOLEAN,
     HAS_QUANTUM_RINGS : BOOLEAN, qr_token : BOOLEAN, qr_user_name : BOOLEAN,
     result : {"pending"}]

\* the Qiskit test applied to every mode, gpu included
QiskitMissingAnyMode(c) == ~c.HAS_QISKIT

\* line 110
QiskitMissing(c) == ~c.HAS_QISKIT /\ c.mode # "gpu"

\* line 133
Credentials(c) == c.HAS_QUANTUM_RINGS /\ c.qr_token /\ c.qr_user_name

\* lines 133-146: what self.backend may end up as in qr-cloud mode.  With the
\* library and credentials: what get_backend returned (a handle or None), or
\* BackendV2(None, ...) after an exception; without: BackendV2(None, ...).
\* BackendV2 is the stand-in class of lines 68-78 when the import failed and
\* the library's own class (whose constructor may raise) when it succeeded.
QrBackends(c) ==
    (IF Credentials(c) THEN {Absent, "remote"} ELSE {"remote"})
    \cup (IF c.HAS_QUANTUM_RINGS THEN {"raise"} ELSE {})

\* the state before __init__ has run
LifeInit ==
    /\ ctor \in { Some(c) : c \in CtorCalls }
    /\ backend_mode = Unset
    /\ backend = Absent
    /\ gpu_simulators = None
    /\ quantum_memory_states = <<>>
    /\ pc = "new"
    /\ batch = <<>>
    /\ i = 0
    /\ batch_outputs = <<>>
    /\ job = None
    /\ elapsed = 0
    /\ counts = CountsNone
    /\ outcome = Absent
    /\ cause = <<>>
    /\ err = None
    /\ calls = {}
    /\ called = {}
    /\ runs = <<>>
    /\ lastw = [k \in Slots |-> None]
    /\ wcall = None
    /\ shots = 0
    /\ release_calls = <<>>

\* __init__ raises e at a point where backend_mode is mode (or not assigned)
\* and gpu_simulators / backend are still None
CtorRaise(e, mode) ==
    /\ ctor' = Some([Get(ctor) EXCEPT !.result = e[1]])
    /\ err' = e
    /\ outcome' = "raised"
    /\ pc' = "failed"
    /\ backend_mode' = mode
    /\ UNCHANGED <<backend, gpu_simulators, quantum_memory_states>>

\* lines 157-161: __init__ runs to its end
CtorDone(mode, handle, sims) ==
    /\ ctor' = Some([Get(ctor) EXCEPT !.result = "ok"])
    /\ err' = None
    /\ outcome' = "returned"
    /\ pc' = "idle"
    /\ backend_mode' = mode
    /\ backend' = handle
    /\ gpu_simulators' = sims
    /\ quantum_memory_states' = [k \in Slots |-> None]

\* lines 103-161
Construct ==
    /\ pc = "new"
    /\ LET c == Get(ctor)
       IN  IF QiskitMissing(c) THEN CtorRaise(<<"ImportError", "qiskit">>, Unset)
           ELSE IF c.mode = "gpu"
           THEN IF c.HAS_CUQUANTUM
                THEN \E ok \in BOOLEAN :
                       IF ok THEN CtorDone("gpu", Absent, Some([k \in Slots |-> <<>>]))
                       ELSE CtorRaise(<<"Exception", "CuQuantumSimulator">>, "gpu")
                ELSE CtorRaise(<<"RuntimeError", "cuQuantum">>, "gpu")
           ELSE IF c.mode = "qr-cloud"
           THEN \E b \in QrBackends(c) :
                  IF b = "raise" THEN CtorRaise(<<"Exception", "BackendV2">>, "qr-cloud")
                  ELSE CtorDone("qr-cloud", b, None)
           ELSE IF c.mode = "cpu-qiskit"
           THEN \E ok \in BOOLEAN :
                  IF ok THEN CtorDone("cpu-qiskit", "aer", None)
                  ELSE CtorRaise(<<"Exception", "AerSimulator">>, "cpu-qiskit")
           ELSE CtorRaise(<<"ValueError", c.mode>>, c.mode)
    /\ UNCHANGED <<batch, i, batch_outputs, job, elapsed, counts, cause, calls,
                   called, runs, lastw, wcall, shots, release_calls>>

\* line 319: the test that guards the release loop.  Reading backend_mode
\* on a cell whose __init__ stopped at line 111 raises AttributeError.
DelCall ==
    /\ pc \in {"idle", "failed"}
    /\ IF backend_mode = Unset
       THEN /\ outcome' = "raised"
            /\ err' = <<"AttributeError", "backend_mode">>
            /\ pc' = "deleted"
       ELSE IF backend_mode = "gpu" /\ gpu_simulators # None /\ memory_depth > 0
       THEN /\ outcome' = Absent
            /\ err' = None
            /\ pc' = "release"
       ELSE /\ outcome' = "returned"
            /\ err' = None
            /\ pc' = "deleted"
    /\ UNCHANGED <<cellVars, storeVars, batch, i, batch_outputs, job, elapsed,
                   counts, cause, calls, called, runs, wcall, shots>>

\* lines 320-323: sim.release() for the next simulator of the pool; no
\* handler encloses the call
Release ==
    /\ pc = "release"
    /\ \E r \in {"ok", "raise"} :
         /\ release_calls' = Append(release_calls, r)
         /\ IF r = "raise"
            THEN /\ outcome' = "raised"
                 /\ err' = <<"Exception", "release">>
                 /\ pc' = "deleted"
            ELSE IF Len(release_calls) + 1 = memory_depth
            THEN /\ outcome' = "returned"
                 /\ pc' = "deleted"
                 /\ UNCHANGED err
            ELSE UNCHANGED <<outcome, err, pc>>
    /\ UNCHANGED <<backend_mode, backend, ctor, storeVars, batch, i, batch_outputs,
                   job, elapsed, counts, cause, calls, called, runs, wcall, shots>>

LifeNext ==
    \/ Construct
    \/ DelCall
    \/ Release

\* one cell from its constructor call to its teardown
LifeSpec == LifeInit /\ [][LifeNext]_vars

(* ============================ properties =============================== *)
ReadEnded == pc = "done"
ReadReturned == pc = "done" /\ outcome = "returned"
OutOfRange(k) == k < 0 \/ k >= memory_depth
AllInRange(b) == \A j \in 1..Len(b) : ~OutOfRange(b[j])
HandleAbsent ==
    \/ backend_mode # "gpu" /\ backend = Absent
    \/ backend_mode = "gpu" /\ gpu_simulators = None
\* an exception of the assembly or decoding stage was met
StageFailed == err # None /\ err[1] = "Exception"
\* the position (0-based) of the first out-of-range item of b
FirstOutOfRange(b) == CHOOSE j \in 0..(Len(b) - 1) :
    OutOfRange(b[j + 1]) /\ \A h \in 0..(j - 1) : ~OutOfRange(b[h + 1])
\* rotations of the stored vector v, written out gate by gate
ExpectedBlueprint(v) ==
    [n \in 1..(2 * num_qubits) |->
        <<IF n % 2 = 1 THEN "ry" ELSE "rz", encoding_linear(v)[n], (n - 1) \div 2>>]
ExpectedContent(w) == IF w = None THEN None ELSE Some(ExpectedBlueprint(Get(w)))

\* C1: in cpu-qiskit and qr-cloud modes, when the only exceptions of a read
\* over in-range items are raised by submission (transpile, run) or by the
\* result fetch, read returns normally, exactly those items get a fallback
\* row and every other item gets a decoded row.
C1_PerItemIsolation ==
    (/\ ReadEnded
     /\ backend_mode # "gpu"
     /\ ~HandleAbsent
     /\ AllInRange(batch)
     /\ ~StageFailed
     /\ \A j \in 1..Len(cause) : cause[j] \in {"none", "backend"})
    => /\ outcome = "returned"
       /\ Len(batch_outputs) = Len(batch)
       /\ Len(cause) = Len(batch)
       /\ \A j \in 1..Len(batch) :
            /\ cause[j] = "backend" => batch_outputs[j].kind = "fallback"
            /\ cause[j] = "none" => batch_outputs[j].kind = "decoded"

\* C1 witness: a read ended whose first item failed at the backend and whose
\* second item was decoded
C1_Witness ==
    /\ ReadReturned
    /\ backend_mode # "gpu"
    /\ Len(batch) = 2
    /\ cause = <<"backend", "none">>
    /\ batch_outputs[1].kind = "fallback"
    /\ batch_outputs[2].kind = "decoded"

\* C2: in cpu-qiskit and qr-cloud modes a read over in-range items never
\* aborts: whatever stage of an item raises (assembly, submission, polling,
\* decoding), the item gets a fallback row and read returns one row per item.
C2_NeverAborts ==
    (ReadEnded /\ backend_mode # "gpu" /\ ~HandleAbsent /\ AllInRange(batch))
    => (outcome = "returned" /\ Len(batch_outputs) = Len(batch))

\* C3: in qr-cloud mode every polling loop ends; a timeout is raised only
\* after a poll that reported a non-terminal status with more than
\* job_timeout elapsed, it is a TimeoutError and not a job failure, the item
\* gets a fallback row and read is back at the loop head with the next item.
C3_TimeoutShape ==
    (err # None /\ err[1] = "TimeoutError")
    => /\ backend_mode = "qr-cloud"
       /\ pc = "loop"
       /\ ~(err[2] \in {DONE, ERROR, CANCELLED})
       /\ elapsed > job_timeout
       /\ i = Len(batch_outputs)
       /\ i >= 1
       /\ batch_outputs[i].kind = "fallback"
       /\ batch_outputs[i].pos = i - 1
       /\ cause[i] = "poll"

C3_TimeoutResolves ==
    /\ []C3_TimeoutShape
    /\ (pc = "poll") ~> (pc = "loop" \/ pc = "fetch")
    /\ (pc # "idle" /\ pc # "wrote") ~> (pc = "done")

\* C3 witness: an item of a qr-cloud read has just timed out, items remain
C3_Witness ==
    /\ backend_mode = "qr-cloud"
    /\ pc = "loop"
    /\ err = TimeoutError(RUNNING)
    /\ i < Len(batch)
    /\ elapsed > job_timeout

\* C4: in qr-cloud mode a poll that reports ERROR or CANCELLED fails the item
\* with a job-failure error carrying that status and the item gets a fallback
\* row without job.result() being called; job.result() is called only for a
\* job whose last poll reported DONE.
C4_FailedJobNotFetched ==
    /\ (err # None /\ err[1] = "RuntimeError")
       => /\ err[2] \in {ERROR, CANCELLED}
          /\ pc = "loop"
          /\ i >= 1
          /\ i = Len(batch_outputs)
          /\ batch_outputs[i].kind = "fallback"
          /\ "result" \notin calls
          /\ "status" \in calls
    /\ (backend_mode = "qr-cloud" /\ pc = "fetch") => Get(job).status = DONE
    /\ backend_mode = "qr-cloud"
       => ("result" \in calls =>
            /\ "status" \in calls
            /\ pc = "loop" => cause[i] # "poll"
            /\ job # None => Get(job).status = DONE)

\* C4 witness: a cancelled job has just been turned into a fallback row
C4_Witness ==
    /\ backend_mode = "qr-cloud"
    /\ pc = "loop"
    /\ err = JobFailed(CANCELLED)
    /\ i = 2
    /\ cause = <<"none", "poll">>
    /\ calls = {"run", "status"}

\* C5 as stated, for a cell whose backend handle is present and a read that
\* no other exception leaves first: a read whose batch holds an out-of-range
\* slot index raises a validation error and makes no backend call at all.
C5_NoBackendCallAtAll ==
    (ReadEnded /\ ~HandleAbsent /\ ~AllInRange(batch) /\ (err = None \/ err[1] = "ValueError"))
    => (outcome = "raised" /\ err # None /\ called = {})

\* C5 amended: validation is per item.  With the backend handle present, a
\* read whose batch holds an out-of-range index never returns a result; no
\* backend call is made for the first out-of-range item or any later item,
\* the items before it are processed first, and the validation error is
\* raised exactly when the loop reaches that item.
C5_ValidatedPerItem ==
    (pc \notin {"idle", "wrote"} /\ ~HandleAbsent /\ ~AllInRange(batch))
    => LET p == FirstOutOfRange(batch)
       IN  /\ \A c \in called : c < p
           /\ i <= p
           /\ ReadEnded => outcome = "raised" /\ err # None
           /\ (ReadEnded /\ i = p) => err = ValidationError(batch[p + 1])
           /\ (err # None /\ err[1] = "ValueError") => (ReadEnded /\ i = p)

\* C5 witness: the validation error came after a backend call for an earlier item
C5_Witness ==
    /\ ReadEnded
    /\ ~HandleAbsent
    /\ Len(batch) = 2
    /\ err = ValidationError(batch[2])
    /\ i = 1
    /\ called = {0}

\* C6: when read returns normally the result has one row per batch item and
\* row j is the outcome of item j: a fallback for that item or the decoding
\* of the program stored for that item's slot.
C6_RowsFollowBatch ==
    ReadReturned
    => /\ Len(batch_outputs) = Len(batch)
       /\ \A j \in 1..Len(batch) :
            /\ batch_outputs[j].pos = j - 1
            /\ batch_outputs[j].slot = batch[j]
            /\ batch_outputs[j].kind = "decoded" =>
                 batch_outputs[j].circ =
                    Some(MeasurementCircuit(
                       IF backend_mode = "gpu" THEN Some(Get(gpu_simulators)[batch[j]])
                       ELSE quantum_memory_states[batch[j]]))

\* C6 witness: a fallback followed by a decoded row, over two differently written slots
C6_Witness ==
    /\ ReadReturned
    /\ backend_mode # "gpu"
    /\ batch = <<0, 1>>
    /\ quantum_memory_states[0] # None
    /\ quantum_memory_states[1] # None
    /\ quantum_memory_states[0] # quantum_memory_states[1]
    /\ batch_outputs[1].kind = "fallback"
    /\ batch_outputs[2].kind = "decoded"

\* C7: in cpu-qiskit and qr-cloud modes every slot holds exactly the
\* 2*num_qubits rotations encoded from the vector of the last item write
\* applied to it (None if never written), and the program read submits for an
\* item is that blueprint followed by the measurement.
C7_LastWriteWins ==
    backend_mode # "gpu"
    => /\ \A k \in Slots :
            /\ quantum_memory_states[k] = ExpectedContent(lastw[k])
            /\ quantum_memory_states[k] # None =>
                 Len(Get(quantum_memory_states[k])) = 2 * num_qubits
       /\ (job # None) =>
            Get(job).circ = MeasurementCircuit(ExpectedContent(lastw[batch[i + 1]]))

\* C7 witness: one write call overwrote a written slot twice, with different vectors
C7_Witness ==
    /\ backend_mode # "gpu"
    /\ pc = "wrote"
    /\ Get(wcall).res = "ok"
    /\ Len(Get(wcall).vecs) = 2
    /\ Get(wcall).idx = <<1, 1>>
    /\ Get(wcall).vecs[1] # Get(wcall).vecs[2]
    /\ lastw[1] = Some(Get(wcall).vecs[2])

\* C8: no step of read changes the slot store: only a step of write changes
\* quantum_memory_states or the gate sequence applied to a slot's simulator,
\* and the store always has exactly memory_depth entries.
C8_ReadKeepsStore ==
    /\ [][pc' # "wrote" =>
            /\ quantum_memory_states' = quantum_memory_states
            /\ gpu_simulators' = gpu_simulators]_vars
    /\ [](DOMAIN quantum_memory_states = 0..(memory_depth - 1))

\* C8 witness: a read over an unwritten and a written slot has ended
C8_Witness ==
    /\ ReadEnded
    /\ backend_mode # "gpu"
    /\ Len(batch_outputs) >= 2
    /\ \E k \in Slots : quantum_memory_states[k] = None
    /\ \E k \in Slots : quantum_memory_states[k] # None
    /\ \E j \in 1..Len(batch_outputs) :
          batch_outputs[j].kind = "decoded" /\ quantum_memory_states[batch[j]] = None

\* C9: a read of the empty batch returns zero rows and makes no backend call,
\* in every mode, whether the backend handle is present or not.
C9_EmptyBatch ==
    (pc \notin {"idle", "wrote"} /\ batch = <<>>)
    => /\ called = {}
       /\ calls = {}
       /\ job = None
       /\ pc \in {"loop", "done"}
       /\ ReadEnded => (outcome = "returned" /\ batch_outputs = <<>>)

\* C9 witness: the empty read has returned with the backend handle present
C9_Witness ==
    /\ ReadReturned
    /\ batch = <<>>
    /\ ~HandleAbsent
    /\ batch_outputs = <<>>

\* C10: when the handle the mode needs is absent, read returns one fallback
\* row per item of the batch and makes no backend call.
C10_AbsentHandle ==
    (pc \notin {"idle", "wrote"} /\ HandleAbsent)
    => /\ ReadReturned
       /\ called = {}
       /\ calls = {}
       /\ Len(batch_outputs) = Len(batch)
       /\ \A j \in 1..Len(batch) : batch_outputs[j].kind = "fallback"

\* C10 witness: two fallback rows, one of them for an out-of-range index
C10_Witness ==
    /\ ReadReturned
    /\ HandleAbsent
    /\ Len(batch) = 2
    /\ OutOfRange(batch[2])
    /\ Len(batch_outputs) = 2

\* the conditions under which the constructor call c lacks what its mode needs
ModeUnsupported(c) == c.mode \notin {"gpu", "qr-cloud", "cpu-qiskit"}
GpuEngineMissing(c) == c.mode = "gpu" /\ ~c.HAS_CUQUANTUM
RemoteUnavailable(c) ==
    c.mode = "qr-cloud" /\ (~c.HAS_QUANTUM_RINGS \/ ~c.qr_token \/ ~c.qr_user_name)
SimulatorMissing(c) == c.mode = "cpu-qiskit" /\ ~c.HAS_QISKIT
ConfigurationErrors == {"ImportError", "RuntimeError", "ValueError"}
Constructed == ctor # None /\ Get(ctor).result # "pending"

C12_TeardownReleasesAll ==
    pc = "deleted"
    => /\ outcome = "returned"
       /\ (backend_mode = "gpu" /\ gpu_simulators # None)
            => Len(release_calls) = memory_depth

\* C13: write checks the batch length before it touches the store: a write
\* raises the length error exactly when a list of slot indices is not as long
\* as the batch of vectors, and that step leaves every slot and simulator as
\* it was; a scalar slot index never mismatches and stands for one copy of
\* itself per vector, so the last vector of the batch ends up in that slot.
C13_LengthCheckedFirst ==
    /\ [][(pc' = "wrote" /\ Get(wcall').res = "length_mismatch")
            => /\ quantum_memory_states' = quantum_memory_states
               /\ gpu_simulators' = gpu_simulators
               /\ lastw' = lastw
               /\ outcome' = "raised"]_vars
    /\ [](pc = "wrote" =>
            LET w == Get(wcall)
            IN  /\ w.res = "length_mismatch"
                    <=> (~IsInt(w.arg) /\ Len(w.arg.list) # Len(w.vecs))
                /\ IsInt(w.arg) =>
                    /\ Len(w.idx) = Len(w.vecs)
                    /\ \A j \in 1..Len(w.vecs) : w.idx[j] = w.arg.int
                    /\ (InRange(w.arg.int) /\ Len(w.vecs) >= 1) =>
                         /\ w.res = "ok"
                         /\ lastw[w.arg.int] = Some(w.vecs[Len(w.vecs)]))

\* C13 witness: two vectors with one in-range index were refused while a slot
\* already held a vector
C13_Witness ==
    /\ pc = "wrote"
    /\ Get(wcall).res = "length_mismatch"
    /\ Len(Get(wcall).vecs) = 2
    /\ ~IsInt(Get(wcall).arg)
    /\ Len(Get(wcall).arg.list) = 1
    /\ InRange(Get(wcall).arg.list[1])
    /\ lastw[Get(wcall).arg.list[1]] # None
    /\ lastw[Get(wcall).arg.list[1]] # Some(Get(wcall).vecs[1])

\* the read phase of a forward whose write phase went through
InForwardRead == wcall # None /\ pc \notin {"idle", "wrote"} /\ Get(wcall).res = "ok"
\* the items of the forward batch that target slot k
Targeting(w, k) == { j \in 1..Len(w.vecs) : w.idx[j] = k }
\* the vector of the last item of the forward batch that targets slot k
LaterVector(w, k) == w.vecs[CHOOSE j \in Targeting(w, k) : \A h \in Targeting(w, k) : h <= j]
\* what the store holds for slot k, in either representation
SlotContent(k) ==
    IF backend_mode = "gpu" THEN Some(Get(gpu_simulators)[k]) ELSE quantum_memory_states[k]

\* C14: during the read phase of forward every write of the batch is already
\* in the store: each slot the batch targets holds the rotations of the last
\* item targeting it, from before the first backend call on; every program
\* submitted and every decoded row of the read phase is computed from that
\* content, so two items on one slot both read the later item's blueprint.
C14_WriteThenRead ==
    InForwardRead
    => LET w == Get(wcall)
       IN  /\ \A k \in Slots :
                Targeting(w, k) # {} =>
                   SlotContent(k) = Some(ExpectedBlueprint(LaterVector(w, k)))
           /\ (job # None /\ Targeting(w, batch[i + 1]) # {}) =>
                Get(job).circ =
                   MeasurementCircuit(Some(ExpectedBlueprint(LaterVector(w, batch[i + 1]))))
           /\ \A j \in 1..Len(batch_outputs) :
                (batch_outputs[j].kind = "decoded" /\ Targeting(w, batch[j]) # {}) =>
                   batch_outputs[j].circ =
                      Some(MeasurementCircuit(Some(ExpectedBlueprint(LaterVector(w, batch[j])))))

\* C14 witness: a forward of two different vectors onto one slot returned two
\* decoded rows, both measured on the second vector's blueprint
C14_Witness ==
    /\ InForwardRead
    /\ ReadReturned
    /\ Len(Get(wcall).vecs) = 2
    /\ Get(wcall).vecs[1] # Get(wcall).vecs[2]
    /\ batch = <<0, 0>>
    /\ Len(batch_outputs) = 2
    /\ batch_outputs[1].kind = "decoded"
    /\ batch_outputs[2].kind = "decoded"
    /\ batch_outputs[1].circ = Some(MeasurementCircuit(Some(ExpectedBlueprint(Get(wcall).vecs[2]))))
    /\ batch_outputs[1].circ # Some(MeasurementCircuit(Some(ExpectedBlueprint(Get(wcall).vecs[1]))))

\* the exceptions of the execution-error class: raised by a backend call, a
\* job that ended in ERROR or CANCELLED, a polling timeout
ExecutionErrors == {"BackendError", "RuntimeError", "TimeoutError"}

\* C15: in every mode an execution error met by read stays inside read: the
\* item it belongs to gets a fallback row and read goes on with the next
\* item; in particular when a gpu simulator's measure_shots raises.
C15_ExecutionErrorsContained ==
    (pc \notin {"idle", "wrote"} /\ err # None /\ err[1] \in ExecutionErrors)
    => /\ outcome # "raised"
       /\ pc = "loop"
       /\ i >= 1
       /\ Len(batch_outputs) = i
       /\ batch_outputs[i].kind = "fallback"

\* C16: outside qr-cloud mode read never polls: it never queries a job's
\* status, never sleeps (no time passes inside read), never times out and no
\* item fails at polling; in cpu-qiskit mode job.result() follows run
\* directly, and in gpu mode the only backend call is measure_shots, whose
\* counts are decoded next.
C16_PollingOnlyRemote ==
    backend_mode # "qr-cloud"
    => /\ pc # "poll"
       /\ "status" \notin calls
       /\ elapsed = 0
       /\ ~(err # None /\ err[1] \in {"TimeoutError", "RuntimeError"})
       /\ \A j \in 1..Len(cause) : cause[j] # "poll"
       /\ pc = "fetch" => (calls = {"run"} /\ Get(job).status = QUEUED)
       /\ "result" \in calls => calls = {"run", "result"}
       /\ backend_mode = "gpu" =>
            /\ calls \subseteq {"measure_shots"}
            /\ pc \notin {"submit", "fetch"}
            /\ pc = "decode" => calls = {"measure_shots"}

\* C16 witness: a cpu-qiskit read has decoded an item after run and result only
C16_Witness ==
    /\ backend_mode = "cpu-qiskit"
    /\ pc = "loop"
    /\ i = 1
    /\ Len(batch) = 2
    /\ batch_outputs[1].kind = "decoded"
    /\ calls = {"run", "result"}
    /\ elapsed = 0

\* two quotients denote the same number
SameNumber(x, y) == x[2] # 0 /\ y[2] # 0 /\ x[1] * y[2] = y[1] * x[2]
\* the decoded rows of the read in progress
DecodedRows == { j \in 1..Len(batch_outputs) : batch_outputs[j].kind = "decoded" }

\* C17 as stated: a row decoded from counts {"00": 50, "01": 30, "10": 20}
\* with shots = 100 and num_qubits = 2 has probability (30 + 20) / 100 = 1/2
\* for qubit 0.
C17_ExampleCounts ==
    \A j \in DecodedRows :
        (num_qubits = 2 /\ shots = 100 /\ batch_outputs[j].table = Some(ExampleCounts))
        => SameNumber(Get(batch_outputs[j].probs)[0], <<30 + 20, 100>>)

\* C17 amended: for that table, shots = 100 and num_qubits = 2, qubit 0 is
\* the rightmost character, which is '1' only in "01": its probability is
\* 30 / 100 = 3/10; qubit 1 is '1' only in "10": 20 / 100 = 1/5.
C17_ExampleCountsRightmost ==
    \A j \in DecodedRows :
        (num_qubits = 2 /\ shots = 100 /\ batch_outputs[j].table = Some(ExampleCounts))
        => /\ Get(batch_outputs[j].probs)[0] = <<30, 100>>
           /\ SameNumber(Get(batch_outputs[j].probs)[0], <<3, 10>>)
           /\ Get(batch_outputs[j].probs)[1] = <<20, 100>>
           /\ SameNumber(Get(batch_outputs[j].probs)[1], <<1, 5>>)

\* C17 witness: the example table was decoded with 100 shots
C17_Witness ==
    /\ pc = "loop"
    /\ i = 1
    /\ shots = 100
    /\ num_qubits = 2
    /\ batch_outputs[1].kind = "decoded"
    /\ batch_outputs[1].table = Some(ExampleCounts)
    /\ SameNumber(Get(batch_outputs[1].probs)[0], <<3, 10>>)

\* the number a bitstring spells in binary, most significant character first
RECURSIVE BinaryValue(_, _)
BinaryValue(b, n) ==
    IF n = 0 THEN 0
    ELSE (IF b[n] = "1" THEN 1 ELSE 0) + 2 * BinaryValue(b, n - 1)
RECURSIVE TwoToThe(_)
TwoToThe(q) == IF q = 0 THEN 1 ELSE 2 * TwoToThe(q - 1)
\* the character q places from the right end of b is '1'
QthFromRightIsOne(b, q) == (BinaryValue(b, Len(b)) \div TwoToThe(q)) % 2 = 1
\* the counts of a table added up over the bitstrings with that character set
RECURSIVE CountsWithBit(_, _, _)
CountsWithBit(t, keys, q) ==
    IF keys = {} THEN 0
    ELSE LET b == CHOOSE x \in keys : TRUE
         IN  (IF QthFromRightIsOne(b, q) THEN t[b] ELSE 0) + CountsWithBit(t, keys \ {b}, q)
AllKeysFullLength(t) == \A b \in DOMAIN t : Len(b) = num_qubits

\* C18: for every counts table over bitstrings of length num_qubits and every
\* shots > 0, the probability of qubit q in a decoded row is the sum of the
\* counts of the bitstrings whose q-th character from the right is '1',
\* divided by shots; qubit 0 is the rightmost character.
C18_BitPosition ==
    \A j \in DecodedRows :
        LET t == Get(batch_outputs[j].table)
            p == Get(batch_outputs[j].probs)
        IN  (shots > 0 /\ AllKeysFullLength(t))
            => /\ DOMAIN p = 0..(num_qubits - 1)
               /\ \A q \in 0..(num_qubits - 1) :
                    SameNumber(p[q], <<CountsWithBit(t, DOMAIN t, q), shots>>)

\* C18 witness: a decoded row whose table sets qubit 0 and never qubit 1
C18_Witness ==
    /\ pc = "loop"
    /\ i = 1
    /\ shots > 0
    /\ batch_outputs[1].kind = "decoded"
    /\ AllKeysFullLength(Get(batch_outputs[1].table))
    /\ \E b \in DOMAIN Get(batch_outputs[1].table) : b[num_qubits] = "1" /\ b[1] = "0"
    /\ Get(batch_outputs[1].probs)[0][1] > 0
    /\ Get(batch_outputs[1].probs)[num_qubits - 1][1] = 0

\* C19: with shots = 0 an item whose backend returned a counts table is
\* decoded like any other: the step appends a decoded row, read goes on, and
\* every probability of the row is 0.0, whatever the table; no quotient with
\* denominator 0 is ever formed.
C19_ZeroShots ==
    /\ [][(pc = "decode" /\ counts.tag = "table" /\ shots = 0)
            => /\ pc' = "loop"
               /\ outcome' = outcome
               /\ Len(batch_outputs') = Len(batch_outputs) + 1
               /\ batch_outputs'[Len(batch_outputs')].kind = "decoded"
               /\ batch_outputs'[Len(batch_outputs')].table = Some(counts.table)
               /\ \A q \in 0..(num_qubits - 1) :
                    Get(batch_outputs'[Len(batch_outputs')].probs)[q] = Zero]_vars
    /\ [](\A j \in DecodedRows : \A q \in 0..(num_qubits - 1) :
            Get(batch_outputs[j].probs)[q][2] # 0)

\* C19 witness: a table that sets qubit 0 was decoded with shots = 0
C19_Witness ==
    /\ pc = "loop"
    /\ i = 1
    /\ shots = 0
    /\ batch_outputs[1].kind = "decoded"
    /\ \E b \in DOMAIN Get(batch_outputs[1].table) : Len(b) = num_qubits /\ b[num_qubits] = "1"
    /\ \A q \in 0..(num_qubits - 1) : Get(batch_outputs[1].probs)[q] = Zero

\* the current item is between its backend call and its row
ItemInProgress == pc \in {"submit", "poll", "fetch", "decode"}

\* C20: read takes the items one after the other.  A backend call is made
\* for the current item only, and only when every earlier item has its row
\* (decoded or fallback); the only job is the current item's, so in qr-cloud
\* mode at most one job is in flight and, while an item is polled or slept
\* on, no later item has been submitted.
C20_Sequential ==
    /\ [][\A c \in called' \ called :
             /\ c = i
             /\ Len(batch_outputs) = i
             /\ Len(cause) = i]_vars
    /\ [](pc \notin {"idle", "wrote"} =>
            /\ \A c \in called : c <= i
            /\ ~HandleAbsent => (Len(batch_outputs) = i /\ Len(cause) = i)
            /\ job # None => (Get(job).pos = i /\ ItemInProgress)
            /\ ItemInProgress =>
                 /\ Len(batch_outputs) = i
                 /\ \A j \in 1..i : batch_outputs[j].pos = j - 1
                 /\ \A c \in called : c <= i
            /\ pc = "poll" => \A c \in (i + 1)..(Len(batch) - 1) : c \notin called)

\* C20 witness: the first job of a two-item qr-cloud read has been slept on
\* and the second item has not been submitted
C20_Witness ==
    /\ backend_mode = "qr-cloud"
    /\ pc = "poll"
    /\ Len(batch) = 2
    /\ i = 0
    /\ elapsed >= job_poll_interval
    /\ called = {0}
    /\ batch_outputs = <<>>

\* C21: an iteration of the polling loop queries the status, then tests the
\* timeout, then sleeps.  A poll that sees DONE goes on to the result fetch
\* whatever time has elapsed; an iteration sleeps only after a non-terminal
\* status that passed the timeout test, so a job terminal at its first poll
\* is never slept on (polls = sleeps + 1 when polling ends); a timeout is
\* raised only by a poll that returned a non-terminal status.
C21_PollOrder ==
    /\ [][pc = "poll" =>
            /\ pc' = "poll" =>
                 /\ Get(job').polls = Get(job).polls + 1
                 /\ Get(job').sleeps = Get(job).sleeps + 1
                 /\ ~(Get(job').status \in {DONE, ERROR, CANCELLED})
                 /\ elapsed' >= elapsed + job_poll_interval
                 /\ elapsed' - job_poll_interval <= job_timeout
            /\ pc' = "fetch" =>
                 /\ Get(job').status = DONE
                 /\ Get(job').polls = Get(job).polls + 1
                 /\ Get(job').sleeps = Get(job).sleeps
                 /\ elapsed' >= elapsed
            /\ (err' # None /\ err'[1] = "TimeoutError") =>
                 /\ ~(err'[2] \in {DONE, ERROR, CANCELLED})
                 /\ elapsed' > job_timeout
                 /\ pc' = "loop"
            /\ (err' # None /\ err'[1] = "RuntimeError") => err'[2] \in {ERROR, CANCELLED}]_vars
    /\ []((backend_mode = "qr-cloud" /\ pc = "poll") => Get(job).polls = Get(job).sleeps)
    /\ []((backend_mode = "qr-cloud" /\ pc \in {"fetch", "decode"}) =>
            /\ Get(job).polls = Get(job).sleeps + 1
            /\ Get(job).status = DONE)

\* C21 witness: a job seen DONE after more than job_timeout is at the result fetch
C21_Witness ==
    /\ backend_mode = "qr-cloud"
    /\ pc = "fetch"
    /\ elapsed > job_timeout
    /\ Get(job).status = DONE
    /\ Get(job).sleeps >= 1

\* the items (1-based) among the first n of write call w that target slot k
TargetingBefore(w, k, n) == { j \in 1..n : w.idx[j] = k }
\* the vector of the last of them
LastVectorBefore(w, k, n) ==
    w.vecs[CHOOSE j \in TargetingBefore(w, k, n) : \A h \in TargetingBefore(w, k, n) : h <= j]

\* C22: write is not atomic.  When a write raises the out-of-bounds error at
\* item i (0-based), i is the first out-of-range item, every slot targeted by
\* items 0..i-1 holds the rotations of the last of those items targeting it,
\* and every other slot, the targets of the later items included, is as it
\* was before the call.
C22_WriteNotAtomic ==
    [][(pc' = "wrote" /\ Get(wcall').res = "out_of_bounds") =>
         LET w == Get(wcall')
         IN  /\ w.at < Len(w.vecs)
             /\ OutOfRange(w.idx[w.at + 1])
             /\ \A j \in 1..w.at : ~OutOfRange(w.idx[j])
             /\ outcome' = "raised"
             /\ \A k \in Slots :
                  IF TargetingBefore(w, k, w.at) # {}
                  THEN SlotContent(k)' = Some(ExpectedBlueprint(LastVectorBefore(w, k, w.at)))
                  ELSE /\ quantum_memory_states'[k] = quantum_memory_states[k]
                       /\ SlotContent(k)' = SlotContent(k)]_vars

\* C22 witness: a write of two vectors raised at its second item after its
\* first item replaced what the slot held, while a later target kept its own
C22_Witness ==
    /\ pc = "wrote"
    /\ Get(wcall).res = "out_of_bounds"
    /\ Get(wcall).at = 1
    /\ Len(Get(wcall).vecs) = 2
    /\ Get(wcall).idx[1] = 0
    /\ SlotContent(0) = Some(ExpectedBlueprint(Get(wcall).vecs[1]))
    /\ lastw[1] # None
    /\ lastw[1] # Some(Get(wcall).vecs[1])

\* the circuit that only measures
EmptyMeasurement == << <<"measure">> >>

\* item i of the running read targets a valid slot that holds no blueprint
UnwrittenItem ==
    /\ backend_mode # "gpu"
    /\ i < Len(batch)
    /\ ~OutOfRange(batch[i + 1])
    /\ quantum_memory_states[batch[i + 1]] = None

\* C23: in cpu-qiskit and qr-cloud modes an item that reads a slot never
\* written is assembled without an error into the measurement-only circuit and
\* goes to the submission; while it is submitted, polled, fetched and decoded
\* its circuit is the measurement-only one, its row, when decoded, carries that
\* circuit, no step of it changes the store, and its slot holds None when the
\* read has ended.
C23_UnwrittenSlot ==
    /\ [][(pc = "loop" /\ UnwrittenItem) =>
            /\ pc' = "submit"
            /\ err' = None
            /\ job' = Some([pos |-> i, circ |-> EmptyMeasurement, status |-> Absent,
                            polls |-> 0, sleeps |-> 0])
            /\ quantum_memory_states' = quantum_memory_states]_vars
    /\ [][(pc \in {"submit", "poll", "fetch", "decode"} /\ UnwrittenItem) =>
            /\ Get(job).circ = EmptyMeasurement
            /\ quantum_memory_states' = quantum_memory_states
            /\ (pc = "submit" /\ pc' # "loop") =>
                   pc' = (IF backend_mode = "qr-cloud" THEN "poll" ELSE "fetch")
            /\ (pc = "decode" /\ pc' = "loop") =>
                   /\ Len(batch_outputs') = i + 1
                   /\ batch_outputs'[i + 1].kind = "decoded"
                   /\ batch_outputs'[i + 1].circ = Some(EmptyMeasurement)]_vars
    /\ []((backend_mode # "gpu" /\ pc \in {"loop", "submit", "poll", "fetch", "decode", "done"}) =>
            \A j \in 1..Len(batch_outputs) :
               (batch_outputs[j].kind = "decoded" /\ quantum_memory_states[batch[j]] = None)
                   => batch_outputs[j].circ = Some(EmptyMeasurement))

\* C23 witness: a qr-cloud read of a slot never written has returned a decoded
\* row measured on the empty circuit, and the slot still holds None
C23_Witness ==
    /\ ReadReturned
    /\ backend_mode = "qr-cloud"
    /\ Len(batch_outputs) >= 1
    /\ batch_outputs[1].kind = "decoded"
    /\ batch_outputs[1].circ = Some(EmptyMeasurement)
    /\ quantum_memory_states[batch[1]] = None

\* the number of backend.run calls this read has made for item j (0-based)
RunCount(j) == Cardinality({ n \in 1..Len(runs) : runs[n] = j })

\* every job in hand belongs to the item being processed, and no job is in
\* hand between two items or between two calls
JobOwnedByItem ==
    /\ pc \in {"submit", "poll", "fetch", "decode"} => (job # None /\ Get(job).pos = i)
    /\ pc \in {"idle", "wrote", "loop", "done"} => job = None

\* C24 as stated: a read of cpu-qiskit or qr-cloud mode that has returned with
\* its handle present has made exactly one backend.run call for every item,
\* and every job belongs to the item being processed.
C24_ExactlyOneJob ==
    /\ JobOwnedByItem
    /\ (ReadReturned /\ backend_mode # "gpu" /\ ~HandleAbsent)
          => \A j \in 0..(Len(batch) - 1) : RunCount(j) = 1

\* C24 as amended: read makes at most one backend.run call per item, in item
\* order and only from the submission of that item; the submission of an item
\* makes exactly one, except that in cpu-qiskit mode a transpile that raises
\* leaves the item without any; no run call follows a failure or a timeout of
\* the same item; a qr-cloud read that has returned has made exactly one per
\* item; and every job belongs to the item being processed, none being in
\* hand between two items or after the read.
C24_AtMostOneJob ==
    /\ [][/\ pc = "submit" =>
                \/ runs' = Append(runs, i)
                \/ /\ backend_mode = "cpu-qiskit"
                   /\ err' = BackendError("transpile")
                   /\ runs' = runs
                   /\ pc' = "loop"
                   /\ i' = i + 1
          /\ pc # "submit" => (runs' = runs \/ (runs' = <<>> /\ pc' = "idle"))
          /\ (pc \in {"submit", "poll", "fetch"} /\ pc' = "loop") => i' = i + 1]_vars
    /\ [](\A j \in 0..MaxBatch : RunCount(j) <= 1)
    /\ [](\A n \in 1..Len(runs) : runs[n] <= i /\ (n > 1 => runs[n - 1] < runs[n]))
    /\ [](pc \in {"poll", "fetch"} => RunCount(i) = 1)
    /\ []((backend_mode = "gpu" \/ HandleAbsent) => runs = <<>>)
    /\ []((ReadReturned /\ backend_mode = "qr-cloud" /\ ~HandleAbsent)
            => \A j \in 0..(Len(batch) - 1) : RunCount(j) = 1)
    /\ []JobOwnedByItem

\* C24 witness: a cpu-qiskit read of two items has returned; the transpile of
\* the first raised, so that no job was submitted for it, and the second was
\* submitted once and decoded
C24_Witness ==
    /\ ReadReturned
    /\ backend_mode = "cpu-qiskit"
    /\ Len(batch) = 2
    /\ runs = <<1>>
    /\ batch_outputs[1].kind = "fallback"
    /\ batch_outputs[2].kind = "decoded"

\* C25: a forward call that returns hands back exactly one row per vector of
\* its input batch, whether the slot index was given as a list or as a scalar
\* that write broadcasts to the whole batch.
C25_OneRowPerVector ==
    (InForwardRead /\ ReadReturned) => Len(batch_outputs) = Len(Get(wcall).vecs)

\* a job of the stand-in backend is in hand
DummyJobInHand == backend = "dummy" /\ pc \in {"job", "poll", "fetch", "decode"}

\* the status of a stand-in job is a function of the status() calls made on
\* it: QUEUED before the first, RUNNING after it, DONE from the second on;
\* counts were only ever obtained from a DONE job and put every shot on the
\* all-zero bitstring
DummyMachine ==
    DummyJobInHand =>
       /\ job # None
       /\ Get(job).status = (IF Get(job).polls = 0 THEN QUEUED
                             ELSE IF Get(job).polls = 1 THEN RUNNING ELSE DONE)
       /\ counts.tag = "table" =>
             /\ Get(job).status = DONE
             /\ DOMAIN counts.table = {[q \in 1..num_qubits |-> "0"]}
             /\ \A b \in DOMAIN counts.table : counts.table[b] = shots

\* result() on a stand-in job raises unless the job is DONE, and then yields
\* the counts; run hands out a QUEUED job
DummyMethods ==
    /\ (pc = "job" /\ pc' = "job" /\ Get(job') = Get(job)) =>
          IF Get(job).status = DONE
          THEN counts' = CountsTable(DummyCounts(shots)) /\ err' = err
          ELSE err' = JobNotDone /\ counts' = counts
    /\ (backend = "dummy" /\ pc \in {"idle", "submit"} /\ pc' \in {"job", "poll"}) =>
          (Get(job').status = QUEUED /\ Get(job').polls = 0)

\* every row of a returned read on the stand-in backend was decoded from
\* counts that put all shots on the all-zero bitstring
AllRowsFromDummyCounts ==
    (ReadReturned /\ backend = "dummy") =>
        \A j \in 1..Len(batch_outputs) :
           /\ batch_outputs[j].kind = "decoded"
           /\ batch_outputs[j].table = Some(DummyCounts(shots))

\* C26 as stated: the stand-in job starts QUEUED, reports RUNNING, then DONE,
\* then DONE for ever, never ERROR or CANCELLED, and its result() raises
\* unless it is DONE; a qr-cloud read on the stand-in backend fetches each
\* item's counts after exactly two status polls and one sleep, and every item
\* of a read that returns was decoded from the all-zero counts.
C26_DummyJobResolves ==
    /\ []DummyMachine
    /\ [][DummyMethods]_vars
    /\ []((backend = "dummy" /\ pc \in {"fetch", "decode"}) =>
             (Get(job).polls = 2 /\ Get(job).sleeps = 1))
    /\ []AllRowsFromDummyCounts

\* C26 as amended: the same state machine; in a qr-cloud read on the stand-in
\* backend the first poll of an item reports RUNNING, and then either the
\* timeout has already elapsed and the item gets its fallback row after one
\* poll and no sleep, or the loop sleeps once and the second poll reports
\* DONE, the counts are fetched without an error and put all shots on the
\* all-zero bitstring, and the row is decoded from them with every
\* probability zero.
C26_DummyJobWithinTimeout ==
    /\ []DummyMachine
    /\ [][DummyMethods]_vars
    /\ []((backend = "dummy" /\ pc \in {"fetch", "decode"}) =>
             (Get(job).polls = 2 /\ Get(job).sleeps = 1))
    /\ [][(backend = "dummy" /\ pc = "poll") =>
            IF Get(job).polls = 0
            THEN \/ /\ pc' = "poll"
                    /\ elapsed' - job_poll_interval <= job_timeout
                    /\ Get(job') = [Get(job) EXCEPT !.status = RUNNING, !.polls = 1, !.sleeps = 1]
                 \/ /\ pc' = "loop"
                    /\ elapsed' > job_timeout
                    /\ err' = TimeoutError(RUNNING)
                    /\ batch_outputs' = Append(batch_outputs, FallbackRow(i, batch[i + 1]))
            ELSE /\ pc' = "fetch"
                 /\ Get(job') = [Get(job) EXCEPT !.status = DONE, !.polls = 2]]_vars
    /\ [][(backend = "dummy" /\ pc = "fetch") =>
            /\ pc' = "decode"
            /\ counts' = CountsTable(DummyCounts(shots))]_vars
    /\ [][(backend = "dummy" /\ pc = "decode") =>
            /\ pc' = "loop"
            /\ batch_outputs' = Append(batch_outputs,
                  DecodedRow(i, batch[i + 1], Get(job).circ, DummyCounts(shots),
                             [q \in 0..(num_qubits - 1) |-> <<0, shots>>]))]_vars
    /\ [](backend = "dummy" =>
            \A j \in 1..Len(batch_outputs) :
               IF batch_outputs[j].kind = "decoded"
               THEN batch_outputs[j].table = Some(DummyCounts(shots))
               ELSE cause[j] = "poll")

\* C26 witness: in a read of two items on the stand-in backend the first item
\* timed out at its first poll and the second has its all-zero counts in hand
\* after two polls and one sleep
C26_Witness ==
    /\ backend = "dummy"
    /\ pc = "decode"
    /\ i = 1
    /\ batch_outputs[1].kind = "fallback"
    /\ Get(job).polls = 2
    /\ Get(job).sleeps = 1
    /\ Get(job).status = DONE
    /\ counts = CountsTable(DummyCounts(shots))
====
